---------------------------- MODULE Spec2Model ----------------------------
(***************************************************************************)
(* Retrieval pipeline of cognitoai: the chunker and the in-memory document *)
(* store of backend/document_rag.py, the query expansion and deep search   *)
(* of backend/server.py, the web search of tools/info/web_search.py.       *)
(*                                                                         *)
(* Six specifications, one per part: Spec (the document store),            *)
(* ChunkSpec (chunk_text), ExpandSpec (decompose_query), DeepSpec          *)
(* (deep_search over search_web_standalone), UploadSpec (the document      *)
(* endpoints) and StreamSpec (the streaming chat).                         *)
(*                                                                         *)
(* A Python str is a sequence of one-character strings, a Python list a    *)
(* sequence. A field that holds None or an object is a record that says    *)
(* which (NoVectorizer, NoVectors).                                        *)
(***************************************************************************)
EXTENDS Integers, Sequences, FiniteSets, TLC

VARIABLES
    \* chunk_text(text, chunk_size, overlap): arguments, position and locals
    c_text, c_size, c_overlap, c_pc, c_words, c_start, c_chunks, c_ret,
    \* DocumentStore: its four fields
    documents, vectorizer, chunk_vectors, all_chunks,
    \* the last call on the store, what it returned, what it raised, and
    \* whether no call has raised so far
    s_op, s_ret, s_exc, s_clean,
    \* decompose_query(query): argument, position and result
    e_query, e_pc, e_ret,
    \* deep_search(client, query, on_status): argument, position, locals and
    \* result, and what the search of each sub-query so far gave
    d_query, d_pc, d_sub_queries, d_i, d_all_results, d_ret, d_trace,
    \* generate_stream_with_search: the chunks of the model's first and second
    \* output, position, locals, the events sent to the client so far and the
    \* number of searches made
    g_first, g_second, g_pc, g_i, g_collected, g_query, g_sent, g_searches

chunkVars == <<c_text, c_size, c_overlap, c_pc, c_words, c_start, c_chunks, c_ret>>

storeFields == <<documents, vectorizer, chunk_vectors, all_chunks>>

storeVars ==
    <<documents, vectorizer, chunk_vectors, all_chunks, s_op, s_ret, s_exc, s_clean>>

expandVars == <<e_query, e_pc, e_ret>>

deepVars == <<d_query, d_pc, d_sub_queries, d_i, d_all_results, d_ret, d_trace>>

streamVars ==
    <<g_first, g_second, g_pc, g_i, g_collected, g_query, g_sent, g_searches>>

vars == <<chunkVars, storeVars, expandVars, deepVars, streamVars>>

----------------------------------------------------------------------------
(* Bounds of the model *)

MaxWords == 8
MaxSize == 4
MaxChunks == 9
MaxDocs == 2
MaxTopK == 2
MaxQueryWords == 3
MaxPieces == 3

----------------------------------------------------------------------------
(* The state of each part before it is called *)

\* self.vectorizer = None
NoVectorizer == [state |-> "None", vocabulary |-> {}]

\* self.chunk_vectors = None
NoVectors == [state |-> "None", rows |-> <<>>]

\* __init__, lines 17-21
StoreIdle ==
    /\ documents = <<>>
    /\ vectorizer = NoVectorizer
    /\ chunk_vectors = NoVectors
    /\ all_chunks = <<>>
    /\ s_op = [name |-> "init"]
    /\ s_ret = "None"
    /\ s_exc = "None"
    /\ s_clean = TRUE

\* no call of chunk_text under way
ChunkIdle ==
    /\ c_text = <<>>
    /\ c_size = 1
    /\ c_overlap = 0
    /\ c_pc = "idle"
    /\ c_words = <<>>
    /\ c_start = 0
    /\ c_chunks = <<>>
    /\ c_ret = "None"

\* no call of deep_search under way
DeepIdle ==
    /\ d_query = <<>>
    /\ d_pc = "idle"
    /\ d_sub_queries = <<>>
    /\ d_i = 0
    /\ d_all_results = <<>>
    /\ d_ret = <<>>
    /\ d_trace = <<>>

\* no call of decompose_query under way
ExpandIdle ==
    /\ e_query = <<>>
    /\ e_pc = "idle"
    /\ e_ret = <<>>

\* no chat request under way
StreamIdle ==
    /\ g_first = <<>>
    /\ g_second = <<>>
    /\ g_pc = "idle"
    /\ g_i = 0
    /\ g_collected = <<>>
    /\ g_query = <<>>
    /\ g_sent = <<>>
    /\ g_searches = 0

----------------------------------------------------------------------------
(* Python str and list primitives *)

Whitespace == {" ", "\t", "\n"}

Min(a, b) == IF a < b THEN a ELSE b

Max(a, b) == IF a > b THEN a ELSE b

\* s[a:b] of a Python sequence, negative and out-of-range indices included
PySlice(s, a, b) ==
    LET n  == Len(s)
        lo == IF a < 0 THEN Max(a + n, 0) ELSE Min(a, n)
        hi == IF b < 0 THEN Max(b + n, 0) ELSE Min(b, n)
    IN  IF lo < hi THEN SubSeq(s, lo + 1, hi) ELSE <<>>

RECURSIVE Join(_, _)
\* sep.join(parts)
Join(sep, parts) ==
    IF parts = <<>> THEN <<>>
    ELSE IF Len(parts) = 1 THEN parts[1]
    ELSE parts[1] \o sep \o Join(sep, Tail(parts))

RECURSIVE CollapseWs(_)
\* re.sub(r'\s+', ' ', s): every maximal run of whitespace becomes one space
CollapseWs(s) ==
    IF s = <<>> THEN <<>>
    ELSE IF Head(s) \in Whitespace
         THEN IF Len(s) > 1 /\ s[2] \in Whitespace
              THEN CollapseWs(Tail(s))
              ELSE <<" ">> \o CollapseWs(Tail(s))
         ELSE <<Head(s)>> \o CollapseWs(Tail(s))

RECURSIVE LStrip(_)
LStrip(s) ==
    IF s # <<>> /\ Head(s) \in Whitespace THEN LStrip(Tail(s)) ELSE s

RECURSIVE RStrip(_)
RStrip(s) ==
    IF s # <<>> /\ s[Len(s)] \in Whitespace
    THEN RStrip(SubSeq(s, 1, Len(s) - 1)) ELSE s

\* s.strip()
Strip(s) == RStrip(LStrip(s))

RECURSIVE SplitFrom(_, _)
\* the words of s, given the word cur read so far
SplitFrom(s, cur) ==
    IF s = <<>> THEN (IF cur = <<>> THEN <<>> ELSE <<cur>>)
    ELSE IF Head(s) \in Whitespace
         THEN (IF cur = <<>> THEN <<>> ELSE <<cur>>) \o SplitFrom(Tail(s), <<>>)
         ELSE SplitFrom(Tail(s), Append(cur, Head(s)))

\* s.split(): the maximal runs of non-whitespace characters
Split(s) == SplitFrom(s, <<>>)

----------------------------------------------------------------------------
(* DocumentStore *)

\* TfidfVectorizer(stop_words='english'): the words of two characters or
\* more that are no stop word (the stop words the inputs use).
StopWords == { <<"t", "h", "e">>, <<"a", "n", "d">>, <<"o", "f">> }

RECURSIVE Keep(_)
Keep(ws) ==
    IF ws = <<>> THEN <<>>
    ELSE IF Len(Head(ws)) >= 2 /\ Head(ws) \notin StopWords
         THEN <<Head(ws)>> \o Keep(Tail(ws))
         ELSE Keep(Tail(ws))

Analyze(text) == Keep(Split(text))

TermSet(terms) == { terms[i] : i \in 1..Len(terms) }

\* the dict documents as a sequence of its values in insertion order
Keys(docs) == { docs[i].id : i \in 1..Len(docs) }

Lookup(docs, id) == docs[CHOOSE i \in 1..Len(docs) : docs[i].id = id]

\* documents[doc_id] = doc: a new key goes last, a known key keeps its place
DictSet(docs, doc) ==
    IF doc.id \in Keys(docs)
    THEN [ i \in 1..Len(docs) |-> IF docs[i].id = doc.id THEN doc ELSE docs[i] ]
    ELSE Append(docs, doc)

RECURSIVE DictDel(_, _)
\* del documents[doc_id]
DictDel(docs, id) ==
    IF docs = <<>> THEN <<>>
    ELSE IF Head(docs).id = id THEN Tail(docs)
    ELSE <<Head(docs)>> \o DictDel(Tail(docs), id)

RECURSIVE Flatten_OneBased(_)
Flatten_OneBased(docs) ==
    IF docs = <<>> THEN <<>>
    ELSE [ i \in 1..Len(Head(docs).chunks) |->
             <<Head(docs).id, Head(docs).chunks[i], i>> ]
         \o Flatten_OneBased(Tail(docs))

RECURSIVE Flatten(_)
\* lines 64-67: (doc_id, chunk, idx) of every chunk of every document
Flatten(docs) ==
    IF docs = <<>> THEN <<>>
    ELSE [ i \in 1..Len(Head(docs).chunks) |->
             <<Head(docs).id, Head(docs).chunks[i], i - 1>> ]
         \o Flatten(Tail(docs))

ChunkTexts(chunks) == [ i \in 1..Len(chunks) |-> chunks[i][2] ]

\* the vocabulary fit() learns from the texts
Vocabulary(texts) == UNION { TermSet(Analyze(texts[i])) : i \in 1..Len(texts) }

\* line 72, fit_transform: one row per text, its terms
Rows(texts) ==
    [state |-> "matrix", rows |-> [ i \in 1..Len(texts) |-> Analyze(texts[i]) ]]

Fitted(texts) == [state |-> "fitted", vocabulary |-> Vocabulary(texts)]

\* line 71: a TfidfVectorizer that fit() has not run on
Unfitted == [state |-> "unfitted", vocabulary |-> {}]

Rebuild_KeepsStaleIndex(st) ==
    LET flat == Flatten(st.documents)
    IN  IF flat # <<>> /\ Vocabulary(ChunkTexts(flat)) = {}
        THEN [st EXCEPT !.all_chunks = flat, !.vectorizer = Unfitted,
                        !.exc = "ValueError"]
        ELSE IF flat # <<>>
        THEN [st EXCEPT !.all_chunks = flat,
                        !.vectorizer = Fitted(ChunkTexts(flat)),
                        !.chunk_vectors = Rows(ChunkTexts(flat))]
        ELSE [st EXCEPT !.all_chunks = flat]

\* _rebuild_index, lines 62-75. fit_transform raises ValueError ("empty
\* vocabulary") when no text has a term: all_chunks and the new, unfitted
\* vectorizer are assigned by then, chunk_vectors is not.
Rebuild(st) ==
    LET flat == Flatten(st.documents)
    IN  IF flat # <<>> /\ Vocabulary(ChunkTexts(flat)) = {}
        THEN [st EXCEPT !.all_chunks = flat, !.vectorizer = Unfitted,
                        !.exc = "ValueError"]
        ELSE IF flat # <<>>
        THEN [st EXCEPT !.all_chunks = flat,
                        !.vectorizer = Fitted(ChunkTexts(flat)),
                        !.chunk_vectors = Rows(ChunkTexts(flat))]
        ELSE [st EXCEPT !.all_chunks = flat, !.vectorizer = NoVectorizer,
                        !.chunk_vectors = NoVectors]

\* the store's fields as one value, with the result of the call under way
Fields ==
    [documents |-> documents, vectorizer |-> vectorizer,
     chunk_vectors |-> chunk_vectors, all_chunks |-> all_chunks,
     ret |-> "None", exc |-> "None"]

Assign(st) ==
    /\ documents' = st.documents
    /\ vectorizer' = st.vectorizer
    /\ chunk_vectors' = st.chunk_vectors
    /\ all_chunks' = st.all_chunks
    /\ s_ret' = st.ret
    /\ s_exc' = st.exc
    /\ s_clean' = (s_clean /\ st.exc = "None")

Summary(doc) ==
    [id |-> doc.id, filename |-> doc.filename, chunk_count |-> doc.chunk_count]

\* add_document, lines 23-41
AddDocumentTo(st, doc_id, filename, text, chunks) ==
    LET doc   == [id |-> doc_id, filename |-> filename, text |-> text,
                  chunks |-> chunks, chunk_count |-> Len(chunks)]
        built == Rebuild([st EXCEPT !.documents = DictSet(st.documents, doc)])
    IN  IF built.exc # "None" THEN built
        ELSE [built EXCEPT !.ret = Summary(doc)]

\* remove_document, lines 43-49
RemoveDocumentFrom(st, doc_id) ==
    IF doc_id \in Keys(st.documents)
    THEN LET built == Rebuild([st EXCEPT !.documents = DictDel(st.documents, doc_id)])
         IN  IF built.exc # "None" THEN built
             ELSE [built EXCEPT !.ret = TRUE]
    ELSE [st EXCEPT !.ret = FALSE]

\* get_documents, lines 51-60
GetDocumentsOf(docs) == [ i \in 1..Len(docs) |-> Summary(docs[i]) ]

\* 0.05 of line 93, as 1 / ThresholdDen
ThresholdDen == 20

RECURSIVE Count(_, _)
\* how often term t occurs in terms
Count(terms, t) ==
    IF terms = <<>> THEN 0
    ELSE (IF Head(terms) = t THEN 1 ELSE 0) + Count(Tail(terms), t)

RECURSIVE SumOver(_, _, _)
\* the sum over the terms t of set S of Count(a, t) * Count(b, t)
SumOver(S, a, b) ==
    IF S = {} THEN 0
    ELSE LET t == CHOOSE x \in S : TRUE
         IN  Count(a, t) * Count(b, t) + SumOver(S \ {t}, a, b)

Dot(a, b) == SumOver(TermSet(a) \cap TermSet(b), a, b)

RECURSIVE InVocabulary(_, _)
\* line 83, transform: the terms of the query the vocabulary knows
InVocabulary(terms, vocabulary) ==
    IF terms = <<>> THEN <<>>
    ELSE IF Head(terms) \in vocabulary
         THEN <<Head(terms)>> \o InVocabulary(Tail(terms), vocabulary)
         ELSE InVocabulary(Tail(terms), vocabulary)

\* line 86, cosine_similarity of term-count vectors, squared, as a fraction
\* (the idf weights of the library are left out); 0 for a vector without terms
Cosine2(q, row) ==
    IF q = <<>> \/ row = <<>> THEN [num |-> 0, den |-> 1]
    ELSE [num |-> Dot(q, row) * Dot(q, row), den |-> Dot(q, q) * Dot(row, row)]

Less(a, b) == a.num * b.den < b.num * a.den

\* similarity > 0.05, the similarity being the root of the fraction
AboveThreshold(sim) == ThresholdDen * ThresholdDen * sim.num > sim.den

\* np.argsort(similarities): the indices in ascending order of similarity,
\* equal similarities in ascending order of index
ArgSort(sims) ==
    LET n == Len(sims)
        Before(j, i) == Less(sims[j], sims[i]) \/ (~Less(sims[i], sims[j]) /\ j < i)
        rank(i) == 1 + Cardinality({ j \in 1..n : j # i /\ Before(j, i) })
    IN  [ p \in 1..n |-> CHOOSE i \in 1..n : rank(i) = p ]

Reverse(s) == [ i \in 1..Len(s) |-> s[Len(s) + 1 - i] ]

RECURSIVE Collect_NoThreshold(_, _, _, _)
Collect_NoThreshold(st, sims, indices, results) ==
    IF indices = <<>> THEN [st EXCEPT !.ret = results]
    ELSE LET idx == Head(indices)
         IN  Collect_NoThreshold(st, sims, Tail(indices),
                 Append(results,
                    [doc_id |-> st.all_chunks[idx][1],
                     filename |-> Lookup(st.documents, st.all_chunks[idx][1]).filename,
                     chunk_index |-> st.all_chunks[idx][3],
                     text |-> st.all_chunks[idx][2],
                     similarity |-> sims[idx]]))

RECURSIVE Collect(_, _, _, _)
\* lines 91-102: the result entries of the indices above the threshold
Collect(st, sims, indices, results) ==
    IF indices = <<>> THEN [st EXCEPT !.ret = results]
    ELSE LET idx == Head(indices)
         IN  IF ~AboveThreshold(sims[idx])
             THEN Collect(st, sims, Tail(indices), results)
             ELSE IF idx > Len(st.all_chunks)
             THEN [st EXCEPT !.exc = "IndexError"]
             ELSE IF st.all_chunks[idx][1] \notin Keys(st.documents)
             THEN [st EXCEPT !.exc = "KeyError"]
             ELSE Collect(st, sims, Tail(indices),
                     Append(results,
                        [doc_id |-> st.all_chunks[idx][1],
                         filename |-> Lookup(st.documents, st.all_chunks[idx][1]).filename,
                         chunk_index |-> st.all_chunks[idx][3],
                         text |-> st.all_chunks[idx][2],
                         similarity |-> sims[idx]]))

FindRelevantChunksIn_Forgets(st, query, top_k) ==
    IF st.all_chunks = <<>> \/ st.vectorizer = NoVectorizer THEN [st EXCEPT !.ret = <<>>]
    ELSE IF st.vectorizer.state # "fitted" THEN [st EXCEPT !.exc = "NotFittedError"]
    ELSE IF st.chunk_vectors = NoVectors THEN [st EXCEPT !.exc = "TypeError"]
    ELSE LET q    == InVocabulary(Analyze(query), st.vectorizer.vocabulary)
             sims == [ i \in 1..Len(st.chunk_vectors.rows) |->
                         Cosine2(q, st.chunk_vectors.rows[i]) ]
             top  == PySlice(Reverse(ArgSort(sims)), 0, top_k)
         IN  [Collect(st, sims, top, <<>>) EXCEPT !.chunk_vectors = NoVectors]

\* find_relevant_chunks, lines 77-104. transform on the unfitted vectorizer a
\* failed rebuild left behind raises NotFittedError.
FindRelevantChunksIn(st, query, top_k) ==
    IF st.all_chunks = <<>> \/ st.vectorizer = NoVectorizer THEN [st EXCEPT !.ret = <<>>]
    ELSE IF st.vectorizer.state # "fitted" THEN [st EXCEPT !.exc = "NotFittedError"]
    ELSE IF st.chunk_vectors = NoVectors THEN [st EXCEPT !.exc = "TypeError"]
    ELSE LET q    == InVocabulary(Analyze(query), st.vectorizer.vocabulary)
             sims == [ i \in 1..Len(st.chunk_vectors.rows) |->
                         Cosine2(q, st.chunk_vectors.rows[i]) ]
             top  == PySlice(Reverse(ArgSort(sims)), 0, top_k)
         IN  Collect(st, sims, top, <<>>)

\* "[From: " and "]\n" of line 116
FromOpen ==
    <<"[", "F", "r", "o", "m", ":", " ">>

FromClose ==
    <<"]", "\n">>

\* "\n\n---\n\n" of line 119
ContextSeparator ==
    <<"\n", "\n", "-", "-", "-", "\n", "\n">>

\* lines 113-117: one block per result
ContextParts(relevant_chunks) ==
    [ i \in 1..Len(relevant_chunks) |->
        FromOpen \o relevant_chunks[i].filename \o FromClose
                 \o relevant_chunks[i].text ]

\* get_context_for_query, lines 106-119; the empty string is <<>>
GetContextForQueryIn(st, query, top_k) ==
    LET found == FindRelevantChunksIn(st, query, top_k)
    IN  IF found.exc # "None" THEN found
        ELSE IF found.ret = <<>> THEN [found EXCEPT !.ret = <<>>]
        ELSE [found EXCEPT !.ret = Join(ContextSeparator, ContextParts(found.ret))]

RECURSIVE RemoveAll(_, _)
\* lines 643-644 of server.py: remove_document for every listed document,
\* until one raises
RemoveAll(st, docs) ==
    IF docs = <<>> THEN st
    ELSE LET after == RemoveDocumentFrom(st, Head(docs).id)
         IN  IF after.exc # "None" THEN after ELSE RemoveAll(after, Tail(docs))

\* clear_all_documents, lines 636-646 of server.py
ClearAllDocumentsIn(st) ==
    LET docs  == GetDocumentsOf(st.documents)
        after == RemoveAll(st, docs)
    IN  IF after.exc # "None" THEN after
        ELSE [after EXCEPT !.ret = [status |-> "cleared", documents_removed |-> Len(docs)]]

(* The calls the model makes *)

DocNames == <<"d1", "d2", "d3", "d4">>

DocIds == { DocNames[i] : i \in 1..MaxDocs }

Cat == <<"c", "a", "t">>

Dog == <<"d", "o", "g">>

The == <<"t", "h", "e">>

\* uploads: no chunk, a chunk without a term, a chunk with a term, two chunks
Uploads ==
    { [filename |-> <<"a", ".", "t", "x", "t">>, chunks |-> <<>>],
      [filename |-> <<"a", ".", "t", "x", "t">>, chunks |-> <<The>>],
      [filename |-> <<"b", ".", "p", "d", "f">>, chunks |-> <<Cat>>],
      [filename |-> <<"c", ".", "t", "x", "t">>,
       chunks |-> <<Cat \o <<" ">> \o Dog, Dog>>] }

\* queries: one term, two terms, and a stop word with a word no chunk has
Queries == { Cat, Dog \o <<" ">> \o Cat, The \o <<" ", "e", "m", "u">> }

AddDocument ==
    \E doc_id \in DocIds, up \in Uploads :
        /\ s_op' = [name |-> "add_document", doc_id |-> doc_id, chunks |-> up.chunks]
        /\ Assign(AddDocumentTo(Fields, doc_id, up.filename,
                                Join(<<" ">>, up.chunks), up.chunks))
        /\ UNCHANGED <<chunkVars, expandVars, deepVars, streamVars>>

RemoveDocument ==
    \E doc_id \in DocIds :
        /\ s_op' = [name |-> "remove_document", doc_id |-> doc_id,
                    present |-> doc_id \in Keys(documents)]
        /\ Assign(RemoveDocumentFrom(Fields, doc_id))
        /\ UNCHANGED <<chunkVars, expandVars, deepVars, streamVars>>

GetDocuments ==
    /\ s_op' = [name |-> "get_documents"]
    /\ Assign([Fields EXCEPT !.ret = GetDocumentsOf(documents)])
    /\ UNCHANGED <<chunkVars, expandVars, deepVars, streamVars>>

FindRelevantChunks ==
    \E query \in Queries, top_k \in 0..MaxTopK :
        /\ s_op' = [name |-> "find_relevant_chunks", query |-> query, top_k |-> top_k]
        /\ Assign(FindRelevantChunksIn(Fields, query, top_k))
        /\ UNCHANGED <<chunkVars, expandVars, deepVars, streamVars>>

\* line 226 of server.py calls get_context_for_query(user_query): top_k is
\* the default of line 106
DefaultTopK == 5

GetContextForQuery ==
    \E query \in Queries :
        /\ s_op' = [name |-> "get_context_for_query", query |-> query,
                    top_k |-> DefaultTopK]
        /\ Assign(GetContextForQueryIn(Fields, query, DefaultTopK))
        /\ UNCHANGED <<chunkVars, expandVars, deepVars, streamVars>>

ClearAllDocuments ==
    /\ s_op' = [name |-> "clear_all_documents"]
    /\ Assign(ClearAllDocumentsIn(Fields))
    /\ UNCHANGED <<chunkVars, expandVars, deepVars, streamVars>>

Init == StoreIdle /\ ChunkIdle /\ ExpandIdle /\ DeepIdle /\ StreamIdle

Next ==
    \/ AddDocument
    \/ RemoveDocument
    \/ GetDocuments
    \/ FindRelevantChunks
    \/ GetContextForQuery
    \/ ClearAllDocuments

Spec == Init /\ [][Next]_vars

----------------------------------------------------------------------------
(* Properties of DocumentStore *)

RECURSIVE ChunksBefore(_, _)
\* how many chunks the first i - 1 documents hold
ChunksBefore(docs, i) ==
    IF i <= 1 THEN 0 ELSE Len(docs[i - 1].chunks) + ChunksBefore(docs, i - 1)

\* flat is the concatenation, in the order of docs, of (doc_id, chunk,
\* position) for every chunk of every document
IsConcatenation(flat, docs) ==
    /\ Len(flat) = ChunksBefore(docs, Len(docs) + 1)
    /\ \A i \in 1..Len(docs) : \A p \in 1..Len(docs[i].chunks) :
           flat[ChunksBefore(docs, i) + p] = <<docs[i].id, docs[i].chunks[p], p - 1>>

\* the vectorizer and the matrix were built from flat, or are both None when
\* flat is empty
IndexBuiltFrom(flat) ==
    IF flat = <<>>
    THEN vectorizer = NoVectorizer /\ chunk_vectors = NoVectors
    ELSE /\ vectorizer.state = "fitted"
         /\ vectorizer.vocabulary =
                UNION { TermSet(Analyze(flat[i][2])) : i \in 1..Len(flat) }
         /\ chunk_vectors.state = "matrix"
         /\ Len(chunk_vectors.rows) = Len(flat)
         /\ \A i \in 1..Len(flat) : chunk_vectors.rows[i] = Analyze(flat[i][2])

InSync == IsConcatenation(all_chunks, documents) /\ IndexBuiltFrom(all_chunks)

\* C7: while every call so far completed normally, all_chunks is the
\* concatenation of the chunks of the documents in insertion order and the
\* index is built from exactly that sequence, in every state a query can
\* run in.
C7_IndexInSync == s_clean => InSync

\* a normal removal that leaves chunks of another document behind
C7_Witness ==
    /\ s_clean
    /\ s_op.name = "remove_document"
    /\ s_op.present
    /\ Len(all_chunks) >= 2

\* C8: also after a call in which the rebuild failed, documents, all_chunks
\* and the index describe one corpus, and no query raises.
C8_FailureKeepsConsistent ==
    /\ InSync
    /\ (s_op.name = "find_relevant_chunks" => s_exc = "None")

HasEntry(list, id) == \E i \in 1..Len(list) : list[i].id = id

\* C9: after add_document the listing has the id with its chunk count; a
\* remove_document of an id in the store returns True and the listing no
\* longer has the id; a remove_document of an unknown id returns False.
C9_AddRemoveContract ==
    /\ (s_op.name = "add_document" =>
           \E i \in 1..Len(GetDocumentsOf(documents)) :
               /\ GetDocumentsOf(documents)[i].id = s_op.doc_id
               /\ GetDocumentsOf(documents)[i].chunk_count = Len(s_op.chunks))
    /\ (s_op.name = "remove_document" /\ s_op.present =>
           /\ s_exc = "None"
           /\ s_ret = TRUE
           /\ ~HasEntry(GetDocumentsOf(documents), s_op.doc_id))
    /\ (s_op.name = "remove_document" /\ ~s_op.present =>
           s_exc = "None" /\ s_ret = FALSE)

NoChunks == \A i \in 1..Len(documents) : documents[i].chunks = <<>>

\* C10: whenever the documents hold no chunk, vectorizer and chunk_vectors
\* are None and find_relevant_chunks returns the empty list without raising.
C10_EmptyCorpus ==
    NoChunks =>
        /\ vectorizer = NoVectorizer
        /\ chunk_vectors = NoVectors
        /\ (s_op.name = "find_relevant_chunks" => s_exc = "None" /\ s_ret = <<>>)

\* a query with top_k >= 1 on a store whose only documents have no chunk
C10_Witness ==
    /\ NoChunks
    /\ documents # <<>>
    /\ s_op.name = "find_relevant_chunks"
    /\ s_op.top_k >= 1

\* a call of find_relevant_chunks that returned
Returned == s_op.name = "find_relevant_chunks" /\ s_exc = "None"

\* the position in all_chunks of the chunk a result entry names
FlatIndex(r) ==
    CHOOSE p \in 1..Len(all_chunks) :
        all_chunks[p][1] = r.doc_id /\ all_chunks[p][3] = r.chunk_index

\* C11: the results of find_relevant_chunks are in descending order of
\* similarity, and of two results with equal similarity the one with the
\* lower position in all_chunks comes first.
C11_DescendingStable ==
    Returned =>
        \A i, j \in 1..Len(s_ret) :
            i < j =>
                /\ ~Less(s_ret[i].similarity, s_ret[j].similarity)
                /\ (~Less(s_ret[j].similarity, s_ret[i].similarity) =>
                        FlatIndex(s_ret[i]) < FlatIndex(s_ret[j]))

\* the similarities the last query computed, from the index of this state
SimsOf(query) ==
    [ i \in 1..Len(chunk_vectors.rows) |->
        Cosine2(InVocabulary(Analyze(query), vectorizer.vocabulary),
                chunk_vectors.rows[i]) ]

RECURSIVE Above(_, _)
\* the indices whose similarity is above the threshold, in their order
Above(sims, indices) ==
    IF indices = <<>> THEN <<>>
    ELSE (IF AboveThreshold(sims[Head(indices)]) THEN <<Head(indices)>> ELSE <<>>)
         \o Above(sims, Tail(indices))

\* discard the chunks not above the threshold, rank the rest by descending
\* similarity, take the first top_k
ThresholdThenRank(query, top_k) ==
    LET sims   == SimsOf(query)
        kept   == Above(sims, [ i \in 1..Len(sims) |-> i ])
        order  == Reverse(ArgSort([ k \in 1..Len(kept) |-> sims[kept[k]] ]))
        ranked == [ k \in 1..Len(kept) |-> kept[order[k]] ]
        first  == PySlice(ranked, 0, top_k)
    IN  [ k \in 1..Len(first) |->
            [doc_id |-> all_chunks[first[k]][1],
             filename |-> Lookup(documents, all_chunks[first[k]][1]).filename,
             chunk_index |-> all_chunks[first[k]][3],
             text |-> all_chunks[first[k]][2],
             similarity |-> sims[first[k]]] ]

\* C12: for every top_k >= 0 find_relevant_chunks returns the first top_k
\* entries of the list that discarding the chunks not above the threshold
\* and then ranking by descending similarity gives: at most top_k results,
\* none with a similarity of 0.05 or less.
C12_ThresholdThenTopK ==
    Returned =>
        /\ s_ret = (IF all_chunks = <<>> THEN <<>>
                    ELSE ThresholdThenRank(s_op.query, s_op.top_k))
        /\ Len(s_ret) <= s_op.top_k
        /\ \A i \in 1..Len(s_ret) : AboveThreshold(s_ret[i].similarity)

\* top_k = 2 on three chunks of which one is above the threshold: the
\* second of the top two is discarded after the truncation
C12_Witness ==
    /\ Returned
    /\ s_op.top_k = 2
    /\ Len(all_chunks) >= 3
    /\ Len(s_ret) = 1

\* C17: get_context_for_query returns the empty string exactly when
\* find_relevant_chunks returns no result; otherwise it returns one block
\* "[From: <filename>]\n<chunk text>" per result, in ranking order, joined
\* by "\n\n---\n\n"; and it never raises.
C17_ContextFormat ==
    s_op.name = "get_context_for_query" =>
        LET found == FindRelevantChunksIn(Fields, s_op.query, s_op.top_k)
        IN  /\ s_exc = "None"
            /\ found.exc = "None"
            /\ (s_ret = <<>>) <=> (found.ret = <<>>)
            /\ found.ret # <<>> =>
                   s_ret = Join(<<"\n", "\n", "-", "-", "-", "\n", "\n">>,
                                [ i \in 1..Len(found.ret) |->
                                    <<"[", "F", "r", "o", "m", ":", " ">>
                                    \o found.ret[i].filename \o <<"]", "\n">>
                                    \o found.ret[i].text ])

IsQuery == s_op.name \in {"find_relevant_chunks", "get_context_for_query"}

\* the query op, run on the store of this state
Rerun(op) ==
    IF op.name = "find_relevant_chunks"
    THEN FindRelevantChunksIn(Fields, op.query, op.top_k)
    ELSE GetContextForQueryIn(Fields, op.query, op.top_k)

\* C18: a step of find_relevant_chunks or get_context_for_query leaves
\* documents, all_chunks, vectorizer and chunk_vectors unchanged, and the
\* same query run again on that store gives the outcome the step gave.
C18_QueriesReadOnly ==
    [][IsQuery' =>
          /\ UNCHANGED storeFields
          /\ LET again == Rerun(s_op')
             IN  again.ret = s_ret' /\ again.exc = s_exc']_vars

\* a query that returned two results
C18_Witness ==
    /\ s_op.name = "get_context_for_query"
    /\ s_exc = "None"
    /\ Len(FindRelevantChunksIn(Fields, s_op.query, s_op.top_k).ret) >= 2

\* C20: the handlers run one at a time, so a query runs in a state between
\* two store calls; in every such state all_chunks and chunk_vectors come
\* from the same rebuild and documents has every doc_id all_chunks names.
C20_NoHalfRebuiltIndex ==
    IsQuery =>
        /\ IndexBuiltFrom(all_chunks)
        /\ \A i \in 1..Len(all_chunks) : all_chunks[i][1] \in Keys(documents)

----------------------------------------------------------------------------
(* decompose_query, server.py *)

UpperCase ==
    <<"A", "B", "C", "D", "E", "F", "G", "H", "I", "J", "K", "L", "M", "N",
      "O", "P", "Q", "R", "S", "T", "U", "V", "W", "X", "Y", "Z">>

LowerCase ==
    <<"a", "b", "c", "d", "e", "f", "g", "h", "i", "j", "k", "l", "m", "n",
      "o", "p", "q", "r", "s", "t", "u", "v", "w", "x", "y", "z">>

Digits == {"0", "1", "2", "3", "4", "5", "6", "7", "8", "9"}

IsUpper(c) == \E i \in 1..Len(UpperCase) : UpperCase[i] = c

LowerChar(c) ==
    IF IsUpper(c) THEN LowerCase[CHOOSE i \in 1..Len(UpperCase) : UpperCase[i] = c]
    ELSE c

\* s.lower()
Lower(s) == [ i \in 1..Len(s) |-> LowerChar(s[i]) ]

\* sub in s
Contains(s, sub) ==
    \E i \in 0..(Len(s) - Len(sub)) : SubSeq(s, i + 1, i + Len(sub)) = sub

\* the places where r'20\d{2}' matches in s
YearMatches(s) ==
    { i \in 1..(Len(s) - 3) :
        s[i] = "2" /\ s[i + 1] = "0" /\ s[i + 2] \in Digits /\ s[i + 3] \in Digits }

WhatAre ==
    <<"w", "h", "a", "t", " ", "a", "r", "e">>

WhatIs ==
    <<"w", "h", "a", "t", " ", "i", "s">>

How ==
    <<"h", "o", "w">>

Why ==
    <<"w", "h", "y">>

\* the suffixes of lines 147-169 and 176
SufDefinition ==
    <<" ", "d", "e", "f", "i", "n", "i", "t", "i", "o", "n", " ", "e", "x",
      "p", "l", "a", "n", "a", "t", "i", "o", "n">>

SufGuide ==
    <<" ", "g", "u", "i", "d", "e", " ", "t", "u", "t", "o", "r", "i", "a",
      "l">>

SufReasons ==
    <<" ", "r", "e", "a", "s", "o", "n", "s", " ", "a", "n", "a", "l", "y",
      "s", "i", "s">>

SufNews ==
    <<" ", "l", "a", "t", "e", "s", "t", " ", "n", "e", "w", "s", " ">>

SufRecent ==
    <<" ", "2", "0", "2", "4", " ", "2", "0", "2", "5", " ", "l", "a", "t",
      "e", "s", "t">>

SufIndustry ==
    <<" ", "i", "n", "d", "u", "s", "t", "r", "y", " ", "r", "e", "s", "p",
      "o", "n", "s", "e", " ", "c", "o", "m", "p", "a", "n", "i", "e", "s">>

SufExpert ==
    <<" ", "e", "x", "p", "e", "r", "t", " ", "a", "n", "a", "l", "y", "s",
      "i", "s", " ", "o", "p", "i", "n", "i", "o", "n">>

SufEntity ==
    <<" ", "l", "a", "t", "e", "s", "t", " ", "n", "e", "w", "s">>

\* line 166
Keywords ==
    { <<"r", "e", "g", "u", "l", "a", "t", "i", "o", "n">>,
      <<"p", "o", "l", "i", "c", "y">>,
      <<"l", "a", "w">>,
      <<"a", "c", "t">>,
      <<"i", "m", "p", "a", "c", "t">>,
      <<"e", "f", "f", "e", "c", "t">>,
      <<"i", "m", "p", "l", "i", "c", "a", "t", "i", "o", "n">> }

RECURSIVE Entities(_)
\* line 174: the words that start with a capital and have more than 2 characters
Entities(words) ==
    IF words = <<>> THEN <<>>
    ELSE IF IsUpper(Head(words)[1]) /\ Len(Head(words)) > 2
         THEN <<Head(words)>> \o Entities(Tail(words))
         ELSE Entities(Tail(words))

\* lines 139-177: the list sub_queries before it is deduplicated and cut
Generated(query) ==
    LET query_lower == Lower(query)
        years       == YearMatches(query)
        first       == CHOOSE i \in years : \A j \in years : i <= j
        entities    == Entities(Split(query))
    IN  <<query>>
        \o (IF Contains(query_lower, WhatAre) \/ Contains(query_lower, WhatIs)
            THEN <<query \o SufDefinition>> ELSE <<>>)
        \o (IF Contains(query_lower, How) THEN <<query \o SufGuide>> ELSE <<>>)
        \o (IF Contains(query_lower, Why) THEN <<query \o SufReasons>> ELSE <<>>)
        \o (IF years # {}
            THEN <<query \o SufNews \o SubSeq(query, first, first + 3)>>
            ELSE <<query \o SufRecent>>)
        \o (IF \E kw \in Keywords : Contains(query_lower, kw)
            THEN <<query \o SufIndustry, query \o SufExpert>> ELSE <<>>)
        \o (IF entities # <<>>
            THEN <<Join(<<" ">>, entities) \o SufEntity>> ELSE <<>>)

\* line 180
MaxSubQueries == 4

\* line 180, list(set(sub_queries))[:4]: the first 4 of the distinct strings
\* in the order the set iterates them. The hashes of the strings decide that
\* order, so it is any order: every sequence of min(4, n) different strings
\* of the n distinct ones is a possible result.
DecomposeQuery(query) ==
    LET list == Generated(query)
        S    == { list[i] : i \in 1..Len(list) }
        m    == Min(Cardinality(S), MaxSubQueries)
    IN  { p \in [1..m -> S] : \A i, j \in 1..m : i # j => p[i] # p[j] }

(* The queries the model expands *)

QueryWords ==
    { <<"W", "h", "a", "t">>,
      <<"i", "s">>,
      <<"h", "o", "w">>,
      <<"w", "h", "y">>,
      <<"2", "0", "2", "3">>,
      <<"A", "c", "t">>,
      <<"l", "a", "t", "e", "s", "t">>,
      <<"n", "e", "w", "s">> }

\* "What is the impact of the 2023 AI Act?"
ExampleQuery ==
    <<"W", "h", "a", "t", " ", "i", "s", " ", "t", "h", "e", " ", "i", "m",
      "p", "a", "c", "t", " ", "o", "f", " ", "t", "h", "e", " ", "2", "0",
      "2", "3", " ", "A", "I", " ", "A", "c", "t", "?">>

RECURSIVE WordLists(_)
WordLists(n) ==
    IF n = 0 THEN { <<>> }
    ELSE WordLists(n - 1)
         \cup { Append(l, w) : l \in { x \in WordLists(n - 1) : Len(x) = n - 1 },
                               w \in QueryWords }

ExpandInputs ==
    { Join(<<" ">>, l) : l \in WordLists(MaxQueryWords) } \cup { ExampleQuery }

ExpandInit ==
    /\ e_query \in ExpandInputs
    /\ e_pc = "call"
    /\ e_ret = <<>>
    /\ StoreIdle
    /\ ChunkIdle
    /\ DeepIdle
    /\ StreamIdle

\* decompose_query, lines 134-180
Decompose ==
    /\ e_pc = "call"
    /\ e_ret' \in DecomposeQuery(e_query)
    /\ e_pc' = "done"
    /\ UNCHANGED <<e_query, chunkVars, storeVars, deepVars, streamVars>>

ExpandNext == Decompose

ExpandSpec == ExpandInit /\ [][ExpandNext]_vars

(* Properties of decompose_query *)

\* C1: the result has at most 4 entries, no entry twice, and the original
\* query among them.
C1_AtMostFourWithOriginal ==
    e_pc = "done" =>
        /\ Len(e_ret) <= 4
        /\ \A i, j \in 1..Len(e_ret) : i # j => e_ret[i] # e_ret[j]
        /\ \E i \in 1..Len(e_ret) : e_ret[i] = e_query

\* C19: for a query with "what is" or "what are" and a year 20xx, the
\* result has the original query, the definition variant and the variant
\* naming that year, has no "2024 2025 latest" variant, and has at most 4
\* entries.
C19_YearQuestion ==
    (/\ e_pc = "done"
     /\ Contains(Lower(e_query), WhatIs) \/ Contains(Lower(e_query), WhatAre)
     /\ YearMatches(e_query) # {}) =>
        LET entries == { e_ret[i] : i \in 1..Len(e_ret) }
            years   == YearMatches(e_query)
            first   == CHOOSE i \in years : \A j \in years : i <= j
        IN  /\ e_query \in entries
            /\ (e_query \o SufDefinition) \in entries
            /\ (e_query \o SufNews \o SubSeq(e_query, first, first + 3)) \in entries
            /\ (e_query \o SufRecent) \notin entries
            /\ Len(e_ret) <= 4

----------------------------------------------------------------------------
(* search_web_standalone, tools/info/web_search.py *)

\* line 144
NoSearchResults ==
    <<"N", "o", " ", "s", "e", "a", "r", "c", "h", " ", "r", "e", "s", "u",
      "l", "t", "s", " ", "f", "o", "u", "n", "d", ".", " ", "P", "l", "e",
      "a", "s", "e", " ", "t", "r", "y", " ", "a", " ", "d", "i", "f", "f",
      "e", "r", "e", "n", "t", " ", "q", "u", "e", "r", "y", ".">>

\* line 207
NoRelevantContent ==
    <<"N", "o", " ", "r", "e", "l", "e", "v", "a", "n", "t", " ", "c", "o",
      "n", "t", "e", "n", "t", " ", "f", "o", "u", "n", "d", ".">>

\* line 212
SearchFailedPrefix ==
    <<"S", "e", "a", "r", "c", "h", " ", "f", "a", "i", "l", "e", "d", ":",
      " ">>

\* lines 174 and 207 here, line 202 of server.py
Separator ==
    <<"\n", "\n", "-", "-", "-", "\n", "\n">>

Bold ==
    <<"*", "*">>

Newline ==
    <<"\n">>

UrlLabel ==
    <<"U", "R", "L", ":", " ">>

ContentLabel ==
    <<"C", "o", "n", "t", "e", "n", "t", ":", " ">>

Ellipsis ==
    <<".", ".", ".">>

\* line 150: urls[:5]
MaxFetch == 5

\* line 158: len(content) > 100
MinContentLen == 100

\* line 161: chunks[:20]
MaxPageChunks == 20

\* line 172: search_results[:5]
MaxFallback == 5

\* line 187: min(5, len(all_chunks))
MaxHits == 5

\* line 204: chunk_info['text'][:600]
MaxShown == 600

RECURSIVE NonEmptyUrls(_)
\* line 147: [r['url'] for r in search_results if r['url']]
NonEmptyUrls(results) ==
    IF results = <<>> THEN <<>>
    ELSE IF Head(results).url # <<>>
         THEN <<Head(results).url>> \o NonEmptyUrls(Tail(results))
         ELSE NonEmptyUrls(Tail(results))

RECURSIVE Metadata_StopsAtEmpty(_, _, _)
Metadata_StopsAtEmpty(search_results, page_contents, i) ==
    IF i > Len(page_contents) THEN <<>>
    ELSE LET content == page_contents[i]
             chunks  == PySlice(content.chunks, 0, MaxPageChunks)
         IN  IF content.length > 0 /\ content.length > MinContentLen
             THEN [ c \in 1..Len(chunks) |->
                      [title |-> search_results[i].title,
                       url |-> search_results[i].url,
                       text |-> chunks[c]] ]
                  \o Metadata_StopsAtEmpty(search_results, page_contents, i + 1)
             ELSE <<>>

RECURSIVE Metadata(_, _, _)
\* lines 157-167: the chunks of the i-th page and the pages after it, each
\* with the title and url of search_results[i]
Metadata(search_results, page_contents, i) ==
    IF i > Len(page_contents) THEN <<>>
    ELSE LET content == page_contents[i]
             chunks  == PySlice(content.chunks, 0, MaxPageChunks)
         IN  (IF content.length > 0 /\ content.length > MinContentLen
              THEN [ c \in 1..Len(chunks) |->
                       [title |-> search_results[i].title,
                        url |-> search_results[i].url,
                        text |-> chunks[c]] ]
              ELSE <<>>)
             \o Metadata(search_results, page_contents, i + 1)

\* lines 171-174: the snippets of the first results
Fallback(search_results) ==
    LET first == PySlice(search_results, 0, MaxFallback)
    IN  Join(Separator,
             [ i \in 1..Len(first) |->
                 Bold \o first[i].title \o Bold \o Newline \o first[i].url
                 \o Newline \o first[i].snippet ])

RECURSIVE Format_NoDedup(_, _, _)
Format_NoDedup(metadata, indices, seen_urls) ==
    IF indices = <<>> THEN <<>>
    ELSE LET chunk_info == metadata[Head(indices)]
         IN  << Bold \o chunk_info.title \o Bold \o Newline
                \o UrlLabel \o chunk_info.url \o Newline
                \o ContentLabel \o PySlice(chunk_info.text, 0, MaxShown)
                \o Ellipsis >>
             \o Format_NoDedup(metadata, Tail(indices), seen_urls)

RECURSIVE Format(_, _, _)
\* lines 193-205: one entry per hit, the hits of a url already seen left out
Format(metadata, indices, seen_urls) ==
    IF indices = <<>> THEN <<>>
    ELSE LET chunk_info == metadata[Head(indices)]
         IN  IF chunk_info.url \notin seen_urls
             THEN << Bold \o chunk_info.title \o Bold \o Newline
                     \o UrlLabel \o chunk_info.url \o Newline
                     \o ContentLabel \o PySlice(chunk_info.text, 0, MaxShown)
                     \o Ellipsis >>
                  \o Format(metadata, Tail(indices), seen_urls \cup {chunk_info.url})
             ELSE Format(metadata, Tail(indices), seen_urls)

\* search_web_standalone, lines 139-212, in the environment env: what the
\* search provider returns (results), what the fetch of each url and the
\* text splitter give (fetch), whether the embedding model raises (embed_error)
\* and the order of the chunks by similarity (nearest first or last first).
\* The result is the text returned; kind tells which return made it.
SearchWebStandalone(query, env) ==
    LET search_results == env.results
        urls           == PySlice(NonEmptyUrls(search_results), 0, MaxFetch)
        page_contents  == [ i \in 1..Len(urls) |-> env.fetch[urls[i]] ]
        metadata       == Metadata(search_results, page_contents, 1)
        n              == Len(metadata)
        ranked         == IF env.nearest_first THEN [ i \in 1..n |-> i ]
                          ELSE [ i \in 1..n |-> n + 1 - i ]
        indices        == PySlice(ranked, 0, Min(MaxHits, n))
        results        == Format(metadata, indices, {})
    IN  IF search_results = <<>>
        THEN [kind |-> "no_results", text |-> NoSearchResults]
        ELSE IF metadata = <<>>
        THEN [kind |-> "snippets", text |-> Fallback(search_results)]
        ELSE IF env.embed_error # <<>>
        THEN [kind |-> "failed", text |-> SearchFailedPrefix \o env.embed_error]
        ELSE IF results # <<>>
        THEN [kind |-> "content", text |-> Join(Separator, results)]
        ELSE [kind |-> "no_relevant", text |-> NoRelevantContent]

----------------------------------------------------------------------------
(* deep_search, server.py *)

\* line 196
NoResultsMark ==
    <<"N", "o", " ", "r", "e", "s", "u", "l", "t", "s">>

\* line 196
SearchFailedMark ==
    <<"S", "e", "a", "r", "c", "h", " ", "f", "a", "i", "l", "e", "d">>

\* line 197
SectionLabel ==
    <<"#", "#", "#", " ", "S", "e", "a", "r", "c", "h", ":", " ">>

\* line 203
DeepLabel ==
    <<"[", "D", "E", "E", "P", " ", "S", "E", "A", "R", "C", "H", " ", "-",
      " ">>

DeepLabelEnd ==
    <<" ", "q", "u", "e", "r", "i", "e", "s", " ", "p", "e", "r", "f", "o",
      "r", "m", "e", "d", "]", "\n", "\n">>

\* line 205
DeepSentinel ==
    <<"D", "e", "e", "p", " ", "s", "e", "a", "r", "c", "h", " ", "f", "o",
      "u", "n", "d", " ", "n", "o", " ", "r", "e", "s", "u", "l", "t", "s",
      ".">>

DigitChars == <<"0", "1", "2", "3", "4", "5", "6", "7", "8", "9">>

\* str(n) of a number below 10
Str(n) == <<DigitChars[n + 1]>>

\* line 197
Section(sub_query, result) == SectionLabel \o sub_query \o Newline \o result

\* line 196: result and "No results" not in result and "Search failed" not in result
Kept(result) ==
    /\ result # <<>>
    /\ ~Contains(result, NoResultsMark)
    /\ ~Contains(result, SearchFailedMark)

\* lines 201-205
Fuse(sub_queries, all_results) ==
    IF all_results # <<>>
    THEN DeepLabel \o Str(Len(sub_queries)) \o DeepLabelEnd
         \o Join(Separator, all_results)
    ELSE DeepSentinel

(* The searches the model runs *)

R0 == [title |-> <<"T", "0">>, url |-> <<>>, snippet |-> <<"s", "0">>]

R1 == [title |-> <<"T", "1">>, url |-> <<"u", "1">>, snippet |-> <<"s", "1">>]

R2 == [title |-> <<"T", "2">>, url |-> <<"u", "2">>, snippet |-> <<"s", "2">>]

\* a page whose title is "No results"
R3 == [title |-> NoResultsMark, url |-> <<"u", "3">>, snippet |-> <<"s", "3">>]

\* fetch_page_content returned "" (a failure, a timeout, a status other than 200)
NoPage == [length |-> 0, chunks |-> <<>>]

\* every page is fetched: two chunks of u1, one of u2, one of u3
AllPages ==
    [ u \in {R1.url, R2.url, R3.url} |->
        IF u = R1.url THEN [length |-> 900, chunks |-> <<<<"p", "1", "a">>, <<"p", "1", "b">>>>]
        ELSE IF u = R2.url THEN [length |-> 300, chunks |-> <<<<"p", "2">>>>]
        ELSE [length |-> 300, chunks |-> <<<<"p", "3">>>>] ]

\* longer pages: four chunks of u1, two of u2, u3 not fetched
LongPages ==
    [ u \in {R1.url, R2.url, R3.url} |->
        IF u = R1.url
        THEN [length |-> 2000,
              chunks |-> << <<"q", "1", "a">>, <<"q", "1", "b">>,
                            <<"q", "1", "c">>, <<"q", "1", "d">> >>]
        ELSE IF u = R2.url
        THEN [length |-> 900, chunks |-> << <<"q", "2", "a">>, <<"q", "2", "b">> >>]
        ELSE NoPage ]

Env(results, fetch, embed_error, nearest_first) ==
    [results |-> results, fetch |-> fetch, embed_error |-> embed_error,
     nearest_first |-> nearest_first]

SearchEnvs ==
    { Env(<<>>, AllPages, <<>>, TRUE),
      Env(<<R1, R2>>, AllPages, <<>>, TRUE),
      Env(<<R1, R2>>, AllPages, <<>>, FALSE),
      Env(<<R1, R2>>, AllPages, <<"b", "o", "o", "m">>, TRUE),
      Env(<<R1>>, [AllPages EXCEPT ![R1.url] = NoPage], <<>>, TRUE),
      Env(<<R1, R2>>, [AllPages EXCEPT ![R1.url] = NoPage], <<>>, TRUE),
      Env(<<R0, R2>>, AllPages, <<>>, TRUE),
      Env(<<R3>>, AllPages, <<>>, TRUE),
      Env(<<R1, R2>>, LongPages, <<>>, FALSE) }

DeepQueries == { <<"n", "e", "w", "s">>, <<"h", "o", "w">> }

DeepInit ==
    /\ d_query \in DeepQueries
    /\ d_pc = "call"
    /\ d_sub_queries = <<>>
    /\ d_i = 0
    /\ d_all_results = <<>>
    /\ d_ret = <<>>
    /\ d_trace = <<>>
    /\ StoreIdle
    /\ ChunkIdle
    /\ ExpandIdle
    /\ StreamIdle

\* lines 187-188
DeepStart ==
    /\ d_pc = "call"
    /\ d_sub_queries' \in DecomposeQuery(d_query)
    /\ d_i' = 0
    /\ d_all_results' = <<>>
    /\ d_pc' = "loop"
    /\ UNCHANGED <<d_query, d_ret, d_trace, chunkVars, storeVars, expandVars, streamVars>>

\* lines 192-199, one pass of the loop: on_status raises or not; when it does
\* the except clause ends the pass. quiet records what search_web_standalone
\* returns for this sub-query in this environment, called or not, and env
\* the environment.
DeepSearchStep ==
    /\ d_pc = "loop"
    /\ d_i < Len(d_sub_queries)
    /\ \E status_raises \in BOOLEAN, env \in SearchEnvs :
          LET sub_query == d_sub_queries[d_i + 1]
              found     == SearchWebStandalone(sub_query, env)
          IN  IF status_raises
              THEN /\ d_all_results' = d_all_results
                   /\ d_trace' = Append(d_trace,
                         [sub_query |-> sub_query, kind |-> "raised", text |-> <<>>,
                          quiet |-> found.text, env |-> env])
              ELSE /\ d_all_results' =
                         IF Kept(found.text)
                         THEN Append(d_all_results, Section(sub_query, found.text))
                         ELSE d_all_results
                   /\ d_trace' = Append(d_trace,
                         [sub_query |-> sub_query, kind |-> found.kind,
                          text |-> found.text, quiet |-> found.text, env |-> env])
    /\ d_i' = d_i + 1
    /\ UNCHANGED <<d_query, d_pc, d_sub_queries, d_ret, chunkVars, storeVars, expandVars, streamVars>>

\* lines 201-205
DeepFinish ==
    /\ d_pc = "loop"
    /\ d_i >= Len(d_sub_queries)
    /\ d_ret' = Fuse(d_sub_queries, d_all_results)
    /\ d_pc' = "done"
    /\ UNCHANGED <<d_query, d_sub_queries, d_i, d_all_results, d_trace>>
    /\ UNCHANGED <<chunkVars, storeVars, expandVars, streamVars>>

DeepNext == DeepStart \/ DeepSearchStep \/ DeepFinish

DeepSpec == DeepInit /\ [][DeepNext]_vars

(* Properties of deep_search *)

\* what a search that found nothing returns, and a pass that on_status ended
Nothing(t) == t.kind \in {"no_results", "no_relevant", "failed", "raised"}

\* C2: if every sub-query yields nothing, deep_search returns exactly
\* "Deep search found no results."
C2_SentinelWhenNothing ==
    (d_pc = "done" /\ \A i \in 1..Len(d_trace) : Nothing(d_trace[i])) =>
        d_ret = DeepSentinel

\* C3: every sub-query is searched; one whose search failed or raised has no
\* section; one that produced content has its section in the result.
C3_FailuresAbsorbed ==
    d_pc = "done" =>
        /\ Len(d_trace) = Len(d_sub_queries)
        /\ \A i \in 1..Len(d_trace) :
              LET t == d_trace[i]
              IN  /\ t.kind \in {"failed", "raised"} =>
                        ~Contains(d_ret, SectionLabel \o t.sub_query \o Newline)
                  /\ t.kind \in {"content", "snippets"} =>
                        Contains(d_ret, Section(t.sub_query, t.text))

\* how often sub occurs in s
Occurrences(s, sub) ==
    Cardinality({ i \in 1..(Len(s) - Len(sub) + 1) :
                    SubSeq(s, i, i + Len(sub) - 1) = sub })

\* the urls of the pages the searches can return
PageUrls == { R1.url, R2.url, R3.url }

\* C13: the output of deep_search has no two result entries with the same
\* source url, also when two sub-queries retrieve the same page. An entry
\* shows its url on a line of its own.
C13_NoDuplicateUrl ==
    d_pc = "done" =>
        \A u \in PageUrls : Occurrences(d_ret, u \o Newline) <= 1

\* the entry of line 204 for a chunk of the page of result r
Entry(r, chunk) ==
    Bold \o r.title \o Bold \o Newline \o UrlLabel \o r.url \o Newline
    \o ContentLabel \o chunk \o Ellipsis

\* C14: every entry search_web_standalone returns shows a chunk with the
\* title and url of the page the chunk was fetched from, also when some
\* search result has an empty url.
C14_EntryNamesItsPage ==
    \A i \in 1..Len(d_trace) :
        d_trace[i].kind = "content" =>
            \A r \in {R1, R2, R3} :
                \A c \in 1..Len(AllPages[r.url].chunks) :
                    LET chunk == AllPages[r.url].chunks[c]
                    IN  Contains(d_trace[i].text, ContentLabel \o chunk \o Ellipsis)
                            => Contains(d_trace[i].text, Entry(r, chunk))

\* the first position at which sub occurs in s
Pos(s, sub) ==
    CHOOSE i \in 1..Len(s) :
        /\ SubSeq(s, i, i + Len(sub) - 1) = sub
        /\ \A j \in 1..(i - 1) : SubSeq(s, j, j + Len(sub) - 1) # sub

SectionHead(sub_query) == SectionLabel \o sub_query \o Newline

\* C15: the sections of the output of deep_search are in the order in which
\* decompose_query generated their sub-queries: the original query first,
\* then the variants in the order of the rules.
C15_SectionsInGenerationOrder ==
    d_pc = "done" =>
        LET gen == Generated(d_query)
            IsFirst(i) == \A k \in 1..(i - 1) : gen[k] # gen[i]
        IN  \A i, j \in 1..Len(gen) :
                (/\ i < j
                 /\ IsFirst(i)
                 /\ IsFirst(j)
                 /\ Contains(d_ret, SectionHead(gen[i]))
                 /\ Contains(d_ret, SectionHead(gen[j])))
                => Pos(d_ret, SectionHead(gen[i])) < Pos(d_ret, SectionHead(gen[j]))

RECURSIVE QuietSections(_)
\* the sections a sink that does nothing leaves: of every sub-query in turn,
\* the result of its search if line 196 keeps it
QuietSections(trace) ==
    IF trace = <<>> THEN <<>>
    ELSE (IF Kept(Head(trace).quiet)
          THEN <<Section(Head(trace).sub_query, Head(trace).quiet)>>
          ELSE <<>>)
         \o QuietSections(Tail(trace))

\* C16: a status sink that raises does not keep any sub-query from being
\* searched, and deep_search returns what it returns with a sink that does
\* nothing.
C16_StatusAdvisory ==
    d_pc = "done" =>
        /\ Len(d_trace) = Len(d_sub_queries)
        /\ \A i \in 1..Len(d_trace) : d_trace[i].kind # "raised"
        /\ d_ret = Fuse(d_sub_queries, QuietSections(d_trace))

(* Properties of search_web_standalone, on the searches deep_search made *)

\* the urls search_web_standalone fetches in environment env
FetchedUrls(env) == PySlice(NonEmptyUrls(env.results), 0, MaxFetch)

\* a page whose content line 158 accepts
Usable(page) == page.length > 0 /\ page.length > MinContentLen

\* C22: a fetch that fails or times out counts as an empty page and no more:
\* the search does not fail for it, and every other fetched page is still
\* chunked and indexed. The pages of the model have few chunks, so an
\* indexed page has an entry in the result.
C22_FailedFetchIsEmptyPage ==
    \A i \in 1..Len(d_trace) :
        LET t    == d_trace[i]
            urls == FetchedUrls(t.env)
        IN  t.kind # "raised" =>
                /\ t.kind = "failed" => t.env.embed_error # <<>>
                /\ t.env.embed_error = <<>> =>
                       \A k \in 1..Len(urls) :
                           Usable(t.env.fetch[urls[k]]) =>
                               \E c \in 1..Len(t.env.fetch[urls[k]].chunks) :
                                   Contains(t.text,
                                       ContentLabel \o t.env.fetch[urls[k]].chunks[c]
                                       \o Ellipsis)

\* a search in which the fetch of the first page failed and the second page
\* was fetched
C22_Witness ==
    \E i \in 1..Len(d_trace) :
        /\ d_trace[i].kind = "content"
        /\ d_trace[i].env.results = <<R1, R2>>
        /\ d_trace[i].env.fetch[R1.url] = NoPage
        /\ Usable(d_trace[i].env.fetch[R2.url])

\* C23: when no fetched page gives a usable chunk, the result of the search
\* has no result entry: it names none of the pages the search provider
\* listed.
C23_EmptyCorpusNoEntries ==
    \A i \in 1..Len(d_trace) :
        LET t    == d_trace[i]
            urls == FetchedUrls(t.env)
        IN  (/\ t.kind # "raised"
             /\ \A k \in 1..Len(urls) : ~Usable(t.env.fetch[urls[k]])) =>
                \A r \in 1..Len(t.env.results) :
                    ~Contains(t.text, Bold \o t.env.results[r].title \o Bold)

\* C24: on the semantic path the result has at most 5 entries, no two with
\* the same url; of the hits of one url the highest-ranked is the entry, and
\* the entries are in the order of the ranking.
C24_TopFiveOnePerUrl ==
    \A i \in 1..Len(d_trace) :
        d_trace[i].kind = "content" =>
            LET t     == d_trace[i]
                urls  == FetchedUrls(t.env)
                meta  == Metadata(t.env.results,
                                  [ k \in 1..Len(urls) |-> t.env.fetch[urls[k]] ], 1)
                n     == Len(meta)
                hit(k) == meta[IF t.env.nearest_first THEN k ELSE n + 1 - k]
                hits  == 1..Min(5, n)
                isFirst(k) == \A j \in 1..(k - 1) : hit(j).url # hit(k).url
                entry(k) == Entry(hit(k), hit(k).text)
            IN  /\ Occurrences(t.text, UrlLabel) <= 5
                /\ \A k \in hits :
                       /\ Occurrences(t.text, UrlLabel \o hit(k).url \o Newline) = 1
                       /\ isFirst(k) <=> Contains(t.text, entry(k))
                /\ \A j, k \in hits :
                       (j < k /\ isFirst(j) /\ isFirst(k)) =>
                           Pos(t.text, entry(j)) < Pos(t.text, entry(k))

\* a search with six chunks of two pages: five hits, two entries
C24_Witness ==
    \E i \in 1..Len(d_trace) :
        /\ d_trace[i].kind = "content"
        /\ d_trace[i].env.fetch = LongPages
        /\ Occurrences(d_trace[i].text, UrlLabel) = 2

----------------------------------------------------------------------------
(* chunk_text *)

Normalize_NoStrip(text) == CollapseWs(text)

Normalize_TrimOne(text) ==
    LET n  == Len(text)
        lo == IF n >= 1 /\ text[1] \in Whitespace THEN 2 ELSE 1
        hi == IF n >= 2 /\ text[n] \in Whitespace THEN n - 1 ELSE n
    IN  SubSeq(text, lo, hi)

\* line 153: text = re.sub(r'\s+', ' ', text).strip()
Normalize(text) == Strip(CollapseWs(text))

\* the inputs of chunk_text: the first len letters as words, one separator
\* between them, a lead before and a trail after
Letters == <<"a", "b", "c", "d", "e", "f", "g", "h", "i", "j">>

Separators == { <<" ">>, <<" ", " ">>, <<"\n", "\t">> }

Margins == { <<>>, <<" ">>, <<"\n", " ">> }

MakeText(len, sep, lead, trail) ==
    lead \o Join(sep, [i \in 1..len |-> <<Letters[i]>>]) \o trail

ChunkInputs ==
    { MakeText(len, sep, lead, trail) :
        len \in 0..MaxWords, sep \in Separators, lead \in Margins, trail \in Margins }

ChunkInit ==
    /\ c_text \in ChunkInputs
    /\ c_size \in 1..MaxSize
    /\ c_overlap \in 0..(MaxSize + 1)
    /\ c_pc = "call"
    /\ c_words = <<>>
    /\ c_start = 0
    /\ c_chunks = <<>>
    /\ c_ret = "None"
    /\ StoreIdle
    /\ ExpandIdle
    /\ DeepIdle
    /\ StreamIdle

\* lines 153-162: normalise, split, the single-chunk return, the loop's set-up
ChunkBegin ==
    /\ c_pc = "call"
    /\ LET text  == Normalize(c_text)
           words == Split(text)
       IN  /\ c_words' = words
           /\ IF Len(words) <= c_size
              THEN /\ c_ret' = (IF text # <<>> THEN <<text>> ELSE <<>>)
                   /\ c_pc' = "done"
              ELSE /\ c_ret' = c_ret
                   /\ c_pc' = "loop"
    /\ c_chunks' = <<>>
    /\ c_start' = 0
    /\ UNCHANGED <<c_text, c_size, c_overlap>>
    /\ UNCHANGED <<storeVars, expandVars, deepVars, streamVars>>

NextStart_NoOverlap(end, overlap) == end

\* line 171: start = end - overlap
NextStart(end, overlap) == end - overlap

\* lines 164-175: one pass of `while start < len(words)`
ChunkLoop ==
    /\ c_pc = "loop"
    /\ Len(c_chunks) < MaxChunks
    /\ IF c_start < Len(c_words)
       THEN LET end   == c_start + c_size
                chunk == Join(<<" ">>, PySlice(c_words, c_start, end))
                next  == NextStart(end, c_overlap)
            IN  /\ c_chunks' = Append(c_chunks, chunk)
                /\ c_start' = next
                /\ IF next >= Len(c_words)
                   THEN c_pc' = "done" /\ c_ret' = c_chunks'
                   ELSE c_pc' = "loop" /\ c_ret' = c_ret
       ELSE /\ c_pc' = "done"
            /\ c_ret' = c_chunks
            /\ UNCHANGED <<c_chunks, c_start>>
    /\ UNCHANGED <<c_text, c_size, c_overlap, c_words>>
    /\ UNCHANGED <<storeVars, expandVars, deepVars, streamVars>>

RECURSIVE Windows(_, _, _, _)
\* lines 164-175 as a function: the chunks the loop appends from start on
Windows(words, start, chunk_size, overlap) ==
    IF start >= Len(words) THEN <<>>
    ELSE LET end  == start + chunk_size
             next == NextStart(end, overlap)
         IN  << Join(<<" ">>, PySlice(words, start, end)) >>
             \o (IF next >= Len(words) THEN <<>>
                 ELSE Windows(words, next, chunk_size, overlap))

\* chunk_text, lines 140-175, as a function of its arguments, for
\* overlap < chunk_size
ChunkText(text, chunk_size, overlap) ==
    LET clean == Normalize(text)
        words == Split(clean)
    IN  IF Len(words) <= chunk_size
        THEN (IF clean # <<>> THEN <<clean>> ELSE <<>>)
        ELSE Windows(words, 0, chunk_size, overlap)

ChunkNext == ChunkBegin \/ ChunkLoop

ChunkSpec == ChunkInit /\ [][ChunkNext]_vars

----------------------------------------------------------------------------
(* Properties of chunk_text *)

\* C4: a configuration with overlap >= chunk_size is rejected before any
\* work, and every pass of the loop moves the window start forward.
C4_RejectsBadConfig ==
    [][ /\ (c_pc = "call" /\ c_overlap >= c_size => c_pc' = "rejected")
        /\ (c_pc = "loop" => c_start' > c_start) ]_vars

\* the last k words of a are the first k words of b
Shares(a, b, k) ==
    /\ Len(a) >= k
    /\ Len(b) >= k
    /\ SubSeq(a, Len(a) - k + 1, Len(a)) = SubSeq(b, 1, k)

\* C5 as stated: with 0 <= k < n every pair of consecutive chunks shares
\* exactly k words, except the pair that ends in the final chunk.
C5_OverlapExceptFinal ==
    (c_pc = "done" /\ c_overlap < c_size) =>
        \A i \in 1..(Len(c_ret) - 1) :
            i + 1 < Len(c_ret) =>
                Shares(Split(c_ret[i]), Split(c_ret[i + 1]), c_overlap)

\* C5 amended: with 0 <= k < n every pair of consecutive chunks shares
\* exactly k words, except the pair that ends in the final chunk and the
\* pairs whose later chunk has fewer than k words.
C5_OverlapExceptShort ==
    (c_pc = "done" /\ c_overlap < c_size) =>
        \A i \in 1..(Len(c_ret) - 1) :
            (i + 1 < Len(c_ret) /\ Len(Split(c_ret[i + 1])) >= c_overlap) =>
                Shares(Split(c_ret[i]), Split(c_ret[i + 1]), c_overlap)

\* a finished call with a positive overlap and a pair that does not end in
\* the final chunk
C5_Witness ==
    /\ c_pc = "done"
    /\ c_overlap >= 1
    /\ c_overlap < c_size
    /\ Len(c_ret) >= 3
    /\ Len(Split(c_ret[2])) >= c_overlap

\* the sliding-window reference on the word sequence W
RefChunks(W, n, k) ==
    IF W = <<>> THEN <<>>
    ELSE IF Len(W) <= n THEN << Join(<<" ">>, W) >>
    ELSE LET step  == n - k
             count == (Len(W) + step - 1) \div step
         IN  [ j \in 1..count |->
                 Join(<<" ">>,
                      SubSeq(W, (j - 1) * step + 1,
                             Min((j - 1) * step + n, Len(W)))) ]

\* C6: for k < n the result is the sliding-window reference on the words of
\* the text.
C6_MatchesReference ==
    (c_pc = "done" /\ c_overlap < c_size) =>
        c_ret = RefChunks(Split(c_text), c_size, c_overlap)

\* "a b c d e f g h" with chunk_size 3 and overlap 1
C6_Witness ==
    /\ c_pc = "done"
    /\ c_text = <<"a", " ", "b", " ", "c", " ", "d", " ",
                  "e", " ", "f", " ", "g", " ", "h">>
    /\ c_size = 3
    /\ c_overlap = 1
    /\ c_ret = << <<"a", " ", "b", " ", "c">>, <<"c", " ", "d", " ", "e">>,
                  <<"e", " ", "f", " ", "g">>, <<"g", " ", "h">> >>

\* C21: for k < n, chunk_text on the text with its runs of whitespace
\* collapsed to one space and its ends trimmed returns the chunks that
\* chunk_text returns on the raw text.
C21_NormalizeIdempotent ==
    (c_pc = "done" /\ c_overlap < c_size) =>
        /\ c_ret = ChunkText(c_text, c_size, c_overlap)
        /\ c_ret = ChunkText(Strip(CollapseWs(c_text)), c_size, c_overlap)

\* a text that normalisation changes, cut into several chunks
C21_Witness ==
    /\ c_pc = "done"
    /\ c_overlap < c_size
    /\ Strip(CollapseWs(c_text)) # c_text
    /\ Len(c_ret) >= 3

----------------------------------------------------------------------------
(* upload_document, server.py *)

\* line 567
NoFileProvided ==
    <<"N", "o", " ", "f", "i", "l", "e", " ", "p", "r", "o", "v", "i", "d",
      "e", "d">>

\* line 570
AllowedExtensions == { <<".", "p", "d", "f">>, <<".", "t", "x", "t">> }

\* lines 573-576
UnsupportedFileType ==
    <<"U", "n", "s", "u", "p", "p", "o", "r", "t", "e", "d", " ", "f", "i",
      "l", "e", " ", "t", "y", "p", "e", ".", " ", "A", "l", "l", "o", "w",
      "e", "d", ":", " ", ".", "p", "d", "f", ",", " ", ".", "t", "x", "t">>

\* line 591
CouldNotExtract ==
    <<"C", "o", "u", "l", "d", " ", "n", "o", "t", " ", "e", "x", "t", "r",
      "a", "c", "t", " ", "t", "e", "x", "t", " ", "f", "r", "o", "m", " ",
      "d", "o", "c", "u", "m", "e", "n", "t">>

\* line 609
FailedToProcess ==
    <<"F", "a", "i", "l", "e", "d", " ", "t", "o", " ", "p", "r", "o", "c",
      "e", "s", "s", " ", "d", "o", "c", "u", "m", "e", "n", "t", ":", " ">>

\* line 138 of document_rag.py
FailedToExtract ==
    <<"F", "a", "i", "l", "e", "d", " ", "t", "o", " ", "e", "x", "t", "r",
      "a", "c", "t", " ", "t", "e", "x", "t", " ", "f", "r", "o", "m", " ",
      "P", "D", "F", ":", " ">>

\* the message of the ValueError that fit_transform raises at line 72 of
\* document_rag.py
EmptyVocabulary ==
    <<"e", "m", "p", "t", "y", " ", "v", "o", "c", "a", "b", "u", "l", "a",
      "r", "y", ";", " ", "p", "e", "r", "h", "a", "p", "s", " ", "t", "h",
      "e", " ", "d", "o", "c", "u", "m", "e", "n", "t", "s", " ", "o", "n",
      "l", "y", " ", "c", "o", "n", "t", "a", "i", "n", " ", "s", "t", "o",
      "p", " ", "w", "o", "r", "d", "s">>

\* line 594: chunk_text(text, chunk_size=400, overlap=50)
UploadChunkSize == 400

UploadOverlap == 50

\* os.path.splitext(filename)[1].lower(), line 571: the name from its last
\* dot on, nothing if the only dot leads the name
Ext(filename) ==
    LET dots == { i \in 2..Len(filename) : filename[i] = "." }
    IN  IF dots = {} THEN <<>>
        ELSE Lower(SubSeq(filename, CHOOSE i \in dots : \A j \in dots : j <= i,
                          Len(filename)))

\* str(e) of an HTTPException: "<status_code>: <detail>"
HttpStr(status_code, detail) ==
    Str(status_code \div 100) \o Str((status_code \div 10) % 10)
    \o Str(status_code % 10) \o <<":", " ">> \o detail

\* the response of a raised HTTPException
HttpError(st, status_code, detail) ==
    [st EXCEPT !.ret = [status_code |-> status_code, detail |-> detail]]

\* upload_document, lines 560-609, with RAG_AVAILABLE. file.error is the
\* message of the exception the extraction of the text raises (a ValueError
\* from extract_text_from_pdf), <<>> if it raises none. The HTTPException of
\* line 591 is raised inside the try of line 578: no ValueError, it reaches
\* the clause `except Exception` of line 608. exc keeps the exception a
\* store call raised, which the handler caught.
UploadDocumentIn(st, doc_id, file) ==
    IF file.filename = <<>> THEN HttpError(st, 400, NoFileProvided)
    ELSE IF Ext(file.filename) \notin AllowedExtensions
    THEN HttpError(st, 400, UnsupportedFileType)
    ELSE IF file.error # <<>>
    THEN HttpError(st, 400, FailedToExtract \o file.error)
    ELSE IF Strip(file.text) = <<>>
    THEN HttpError(st, 500, FailedToProcess \o HttpStr(400, CouldNotExtract))
    ELSE LET chunks == ChunkText(file.text, UploadChunkSize, UploadOverlap)
             added  == AddDocumentTo(st, doc_id, file.filename, file.text, chunks)
         IN  IF added.exc = "ValueError"
             THEN HttpError(added, 400, EmptyVocabulary)
             ELSE [added EXCEPT !.ret = [status_code |-> 200, document |-> added.ret]]

\* delete_document, lines 624-633
DeleteDocumentIn(st, doc_id) ==
    LET removed == RemoveDocumentFrom(st, doc_id)
    IN  IF removed.exc # "None" THEN HttpError(removed, 500, <<>>)
        ELSE IF removed.ret
        THEN [removed EXCEPT !.ret = [status_code |-> 200, doc_id |-> doc_id]]
        ELSE HttpError(removed, 404, <<"D", "o", "c", "u", "m", "e", "n", "t",
                                      " ", "n", "o", "t", " ", "f", "o", "u",
                                      "n", "d">>)

(* The requests the model makes *)

File(filename, text, error) == [filename |-> filename, text |-> text, error |-> error]

\* no name; a type not allowed; a pdf that cannot be read; an empty text; a
\* text of whitespace; a text of stop words; two texts with terms
UploadFiles ==
    { File(<<>>, Cat, <<>>),
      File(<<"x", ".", "m", "d">>, Cat, <<>>),
      File(<<"b", ".", "P", "D", "F">>, <<>>, <<"b", "a", "d">>),
      File(<<"b", ".", "p", "d", "f">>, <<>>, <<>>),
      File(<<"n", ".", "t", "x", "t">>, <<" ", "\n", " ">>, <<>>),
      File(<<"a", ".", "t", "x", "t">>, The, <<>>),
      File(<<"c", ".", "t", "x", "t">>, <<" ">> \o Cat \o <<"\n", "\n">> \o Dog, <<>>),
      File(<<"d", ".", "t", "x", "t">>, Dog, <<>>) }

\* line 597: doc_id is the start of a new uuid, an id the store does not hold
UploadDocument ==
    \E file \in UploadFiles, doc_id \in DocIds :
        /\ doc_id \notin Keys(documents)
        /\ s_op' = [name |-> "upload_document", file |-> file]
        /\ Assign(UploadDocumentIn(Fields, doc_id, file))
        /\ UNCHANGED <<chunkVars, expandVars, deepVars, streamVars>>

DeleteDocument ==
    \E doc_id \in DocIds :
        /\ s_op' = [name |-> "delete_document", doc_id |-> doc_id]
        /\ Assign(DeleteDocumentIn(Fields, doc_id))
        /\ UNCHANGED <<chunkVars, expandVars, deepVars, streamVars>>

UploadNext ==
    \/ UploadDocument
    \/ DeleteDocument
    \/ ClearAllDocuments
    \/ GetContextForQuery

UploadSpec == Init /\ [][UploadNext]_vars

(* Properties of upload_document *)

\* C26: an upload whose extracted text is empty or has whitespace only is
\* answered with status 400 and "Could not extract text from document", and
\* leaves documents, all_chunks, vectorizer and chunk_vectors unchanged.
C26_EmptyUploadRejected ==
    [][(/\ s_op'.name = "upload_document"
        /\ s_op'.file.filename # <<>>
        /\ Ext(s_op'.file.filename) \in AllowedExtensions
        /\ s_op'.file.error = <<>>
        /\ Strip(s_op'.file.text) = <<>>) =>
          /\ s_ret'.status_code = 400
          /\ s_ret'.detail = CouldNotExtract
          /\ UNCHANGED storeFields]_vars

----------------------------------------------------------------------------
(* generate_stream_with_search and parse_search_request, server.py *)

\* "[SEARCH:" of line 127, matched without regard to case
SearchOpen == <<"[", "s", "e", "a", "r", "c", "h", ":">>

\* '[SEARCH:' of line 306
SearchTag == <<"[", "S", "E", "A", "R", "C", "H", ":">>

\* parse_search_request, lines 125-131: re.search(r'\[SEARCH:\s*(.+?)\]',
\* text, re.IGNORECASE). The match is the leftmost one; \s* takes as much
\* whitespace as leaves a match, (.+?) as few characters other than newline
\* as possible, at least one. start and end are the positions of "[" and "]".
ParseSearchRequest(text) ==
    LET n == Len(text)
        After(p) == p + Len(SearchOpen)
        Spaces(p) == { w \in 0..(n + 1 - After(p)) :
                         \A i \in After(p)..(After(p) + w - 1) : text[i] \in Whitespace }
        Closes(p, w) == { j \in (After(p) + w + 1)..n :
                            /\ text[j] = "]"
                            /\ \A i \in (After(p) + w)..(j - 1) : text[i] # "\n" }
        Matches(p) == /\ Lower(SubSeq(text, p, After(p) - 1)) = SearchOpen
                      /\ \E w \in Spaces(p) : Closes(p, w) # {}
        starts == { p \in 1..(n + 1 - Len(SearchOpen)) : Matches(p) }
    IN  IF starts = {} THEN [found |-> FALSE, query |-> <<>>, start |-> 0, end |-> 0]
        ELSE LET p == CHOOSE x \in starts : \A y \in starts : x <= y
                 ws == { w \in Spaces(p) : Closes(p, w) # {} }
                 w == CHOOSE x \in ws : \A y \in ws : y <= x
                 j == CHOOSE x \in Closes(p, w) : \A y \in Closes(p, w) : x <= y
             IN  [found |-> TRUE,
                  query |-> Strip(SubSeq(text, After(p) + w, j - 1)),
                  start |-> p, end |-> j]

(* The chat requests the model runs *)

RECURSIVE SplitsInto(_, _)
\* the ways to cut text into at most m chunks, none empty
SplitsInto(text, m) ==
    IF text = <<>> THEN { <<>> }
    ELSE IF m = 0 THEN {}
    ELSE UNION { { <<SubSeq(text, 1, k)>> \o rest :
                     rest \in SplitsInto(SubSeq(text, k + 1, Len(text)), m - 1) } :
                 k \in 1..Len(text) }

\* what the model answers first: a search request, an answer, a request in
\* lower case within an answer
StreamTexts ==
    { <<"[", "S", "E", "A", "R", "C", "H", ":", " ", "q", "]">>,
      <<"o", "k">>,
      <<"H", "m", " ", "[", "s", "e", "a", "r", "c", "h", ":", "q", "]", " ", "x">> }

\* what the model answers after the search
SecondOutputs ==
    { << <<"f", "i", "n", "e">> >>,
      << <<"[", "S", "E", "A", "R", "C", "H", ":", " ", "q", "]">>, <<"s", "o">> >>,
      << <<"[", "S", "E", "A">>, <<"R", "C", "H", ":", " ", "q", "]">> >> }

StreamInit ==
    /\ g_first \in UNION { SplitsInto(text, MaxPieces) : text \in StreamTexts }
    /\ g_second = <<>>
    /\ g_pc = "first"
    /\ g_i = 0
    /\ g_collected = <<>>
    /\ g_query = <<>>
    /\ g_sent = << [kind |-> "status", status |-> "generating"] >>
    /\ g_searches = 0
    /\ StoreIdle
    /\ ChunkIdle
    /\ ExpandIdle
    /\ DeepIdle

\* lines 262-277, one chunk of the first stream: the chunk is sent unless the
\* text collected so far holds a search request. An event sent is a record;
\* pass and from say which output of the model a content chunk is from and
\* where in it the chunk starts
StreamFirst ==
    /\ g_pc = "first"
    /\ g_i < Len(g_first)
    /\ LET content == g_first[g_i + 1]
           parsed  == ParseSearchRequest(g_collected \o content)
       IN  /\ g_collected' = g_collected \o content
           /\ IF parsed.found
              THEN /\ g_query' = parsed.query
                   /\ g_pc' = "search"
                   /\ g_sent' = g_sent
              ELSE /\ g_sent' = Append(g_sent, [kind |-> "content", content |-> content,
                                            pass |-> 1, from |-> Len(g_collected) + 1])
                   /\ UNCHANGED <<g_query, g_pc>>
    /\ g_i' = g_i + 1
    /\ UNCHANGED <<g_first, g_second, g_searches>>
    /\ UNCHANGED <<chunkVars, storeVars, expandVars, deepVars>>

\* lines 280 and 313: the first stream ended without a search request
StreamNoSearch ==
    /\ g_pc = "first"
    /\ g_i >= Len(g_first)
    /\ g_sent' = Append(g_sent, [kind |-> "done"])
    /\ g_pc' = "done"
    /\ UNCHANGED <<g_first, g_second, g_i, g_collected, g_query, g_searches>>
    /\ UNCHANGED <<chunkVars, storeVars, expandVars, deepVars>>

\* lines 280-301 and 309-313, with TOOLS_AVAILABLE: the search, which raises
\* or returns, and the start of the second stream
StreamSearch ==
    /\ g_pc = "search"
    /\ g_searches' = g_searches + 1
    /\ \E raises \in BOOLEAN :
          IF raises
          THEN /\ g_sent' = g_sent \o << [kind |-> "status", status |-> "searching", query |-> g_query],
                                        [kind |-> "status", status |-> "search_failed"],
                                        [kind |-> "done"] >>
               /\ g_pc' = "done"
               /\ UNCHANGED <<g_second, g_i>>
          ELSE /\ g_sent' = g_sent \o << [kind |-> "status", status |-> "searching", query |-> g_query],
                                        [kind |-> "status", status |-> "search_complete"],
                                        [kind |-> "status", status |-> "generating"] >>
               /\ g_second' \in SecondOutputs
               /\ g_i' = 0
               /\ g_pc' = "second"
    /\ UNCHANGED <<g_first, g_collected, g_query>>
    /\ UNCHANGED <<chunkVars, storeVars, expandVars, deepVars>>

\* lines 302-308, one chunk of the second stream
StreamSecond ==
    /\ g_pc = "second"
    /\ g_i < Len(g_second)
    /\ LET content == g_second[g_i + 1]
       IN  g_sent' = IF ~Contains(content, SearchTag)
                     THEN Append(g_sent,
                              [kind |-> "content", content |-> content, pass |-> 2,
                               from |-> Len(Join(<<>>, SubSeq(g_second, 1, g_i))) + 1])
                     ELSE g_sent
    /\ g_i' = g_i + 1
    /\ UNCHANGED <<g_first, g_second, g_pc, g_collected, g_query, g_searches>>
    /\ UNCHANGED <<chunkVars, storeVars, expandVars, deepVars>>

\* line 313 after the second stream
StreamEnd ==
    /\ g_pc = "second"
    /\ g_i >= Len(g_second)
    /\ g_sent' = Append(g_sent, [kind |-> "done"])
    /\ g_pc' = "done"
    /\ UNCHANGED <<g_first, g_second, g_i, g_collected, g_query, g_searches>>
    /\ UNCHANGED <<chunkVars, storeVars, expandVars, deepVars>>

StreamNext ==
    \/ StreamFirst
    \/ StreamNoSearch
    \/ StreamSearch
    \/ StreamSecond
    \/ StreamEnd

StreamSpec == StreamInit /\ [][StreamNext]_vars

(* Properties of generate_stream_with_search *)

\* C25: however the output of the model is cut into chunks, no content sent
\* to the client holds a character of a search request "[SEARCH: query]" of
\* that output, and at most one search is made in a request.
C25_RequestNeverShown ==
    /\ g_searches <= 1
    /\ \A k \in 1..Len(g_sent) :
          g_sent[k].kind = "content" =>
              LET e == g_sent[k]
                  m == ParseSearchRequest(Join(<<>>, IF e.pass = 1 THEN g_first ELSE g_second))
              IN  m.found =>
                      \/ e.from + Len(e.content) - 1 < m.start
                      \/ e.from > m.end

=============================================================================
